---- MODULE Spec2Model ----
(***************************************************************************)
(* ecr-copy (src/main.go): copy one image from a source ECR repository to  *)
(* a destination repository.  main runs getManifest, checkLayerAvails,     *)
(* copyLayers (copyLayer per needed layer) and putManifest in sequence.    *)
(* The registry (the ecr client and the HTTP download) is the environment: *)
(* every call may fail, the destination dictates the part size, and the    *)
(* download stream splits its bytes into reads as it likes.                *)
(***************************************************************************)
EXTENDS Integers, Sequences, FiniteSets, TLC

\* ------------------------------------------------------------------ bounds
MaxLayers == 2      \* layers listed by a manifest (the config blob comes on top)
MaxPart == 2        \* the destination dictates a part size in 1..MaxPart
MaxLen == 4         \* length of an arbitrary blob (SpecCopy)
MaxByte == 2        \* content bytes are 1..MaxByte; 0 is the zero of make([]byte, n)
MaxZeroReads == 1   \* zero-byte reads without EOF the stream makes per transfer
MaxRuns == 2        \* invocations of the program against the same registries
MaxRefLen == 3      \* length of an arbitrary image reference (SpecRef)

\* ----------------------------------------------------------------- helpers
Min(a, b) == IF a < b THEN a ELSE b

Range(s) == {s[i] : i \in 1..Len(s)}

SeqsUpTo(S, n) == UNION {[1..k -> S] : k \in 0..n}

\* ----------------------------------------------------------- digests, blobs
\* The digests a manifest may name.  "sha256:AA" is "sha256:aa" in upper-case hex.
Digests == {"sha256:aa", "sha256:AA", "sha256:bb", "sha256:cc"}

Lower(d) == IF d = "sha256:AA" THEN "sha256:aa" ELSE d

CanonDigests == {Lower(d) : d \in Digests}

Bytes == 1..MaxByte

\* The blobs the source repository serves in a whole run, by digest.
FixedBlobs == [d \in CanonDigests |->
                 CASE d = "sha256:aa" -> <<1, 2>>
                   [] d = "sha256:bb" -> <<2>>
                   [] OTHER -> <<>>]

\* sha256.New(): the empty accumulator.
ShaNew == 0

\* sha.Write(p): the accumulator absorbs the bytes of p in order.  The hash is
\* modelled collision-free: the accumulator is the bijective base-(MaxByte+2)
\* numeral of all bytes written so far.
RECURSIVE ShaWrite(_, _)
ShaWrite(h, p) ==
  IF p = <<>> THEN h
  ELSE ShaWrite(h * (MaxByte + 2) + (Head(p) + 1), Tail(p))

\* The hash value a digest string names: that of the blob it addresses.
HexOf(d, blobs) == ShaWrite(ShaNew, blobs[Lower(d)])

\* ----------------------------------------------------------------- manifest
imageLayer(d) == [Digest |-> d]

\* The manifest documents over the digests D: opaque bytes, of which the
\* program reads the config and the layers.  "pretty" is the document as its
\* author formatted it; "invalid" is a document json.Unmarshal rejects.
ManifestDocs(D) ==
  {[json |-> "pretty", Layers |-> ls, Config |-> imageLayer(c)] :
      ls \in SeqsUpTo({imageLayer(d) : d \in D}, MaxLayers), c \in D}
  \cup {[json |-> "invalid", Layers |-> <<>>, Config |-> imageLayer("sha256:aa")]}

\* json.Unmarshal(manifestBytes, &m)
UnmarshalOk(doc) == doc.json # "invalid"
Unmarshal(doc) == [Config |-> doc.Config, Layers |-> doc.Layers]

\* json.Marshal(m): the parsed struct written back, in the encoder's own layout.
Marshal(m) == [json |-> "compact", Layers |-> m.Layers, Config |-> m.Config]

\* ---------------------------------------------------------- image reference
\* hexRe = `^[a-f0-9]+$`: the characters it accepts.
HexChars == {"0", "1", "2", "3", "4", "5", "6", "7", "8", "9",
             "a", "b", "c", "d", "e", "f"}

\* Faulty variant: the pattern `^[a-f0-9]*$`, which the empty text matches.
hexRe_orEmpty(s) == \A i \in 1..Len(s) : s[i] \in HexChars

hexRe(s) == Len(s) >= 1 /\ \A i \in 1..Len(s) : s[i] \in HexChars

\* strings.Cut(s, ":"): the text after the first ":" and whether there is one.
didCut(s) == \E i \in 1..Len(s) : s[i] = ":"
CutAfter(s) ==
  LET i == CHOOSE k \in 1..Len(s) : s[k] = ":" /\ \A j \in 1..(k - 1) : s[j] # ":"
  IN  SubSeq(s, i + 1, Len(s))

\* lines 66-74: the ImageIdentifier of the lookup; a field is <<>> when nil.
ImageIds(ref) ==
  IF didCut(ref) /\ hexRe(CutAfter(ref))
    THEN [ImageDigest |-> <<ref>>, ImageTag |-> <<>>]
    ELSE [ImageDigest |-> <<>>, ImageTag |-> <<ref>>]

\* Which field of the ImageIdentifier getManifest sets.
ImageIdField(ref) ==
  IF ImageIds(ref).ImageDigest # <<>> THEN "ImageDigest" ELSE "ImageTag"

\* The reference a whole run is started with.
RunRefs == {<<"v", "1">>}

\* The references a lookup is tried with: every text of up to MaxRefLen
\* characters among ":", hex digits in lower case, a hex letter in upper case
\* and a letter that is no hex digit.
RefChars == {":", "a", "0", "A", "g"}
AllRefs == SeqsUpTo(RefChars, MaxRefLen)

\* ------------------------------------------------------------------- state
VARIABLES
  imageDigestOrTag, \* os.Args[2], a sequence of characters
  newTag,        \* os.Args[4], "" when absent
  srcImage,      \* the manifest document of the image at the source
  srcBlobs,      \* the blobs of the source repository, by digest
  destLayers,    \* destination: hash values of the committed layers
  destImages,    \* destination: published images, [tag, manifest]
  prevImages,    \* destImages as the previous run left them
  nextUploadId,  \* destination: the id of the next upload session
  destUploads,   \* destination: the upload sessions opened, in order, each with
                 \* the run and the plan position of the blob it was opened for
  run,           \* which invocation of the program this is
  pc,            \* where main stands
  calls,         \* registry calls of this run, in order
  manifest,      \* main: manifest (the *string getManifest returns)
  img,           \* getManifest: len(img.Images), 0 while there is no answer
  layers,        \* main: layers
  err,           \* main: the error it ends with, "" while there is none
  avails,        \* checkLayerAvails: avails.Layers
  neededLayers,  \* main: neededLayers
  idx,           \* copyLayers: position of the range loop (1-based)
  upload,        \* copyLayer: upload (UploadId, PartSize)
  body,          \* copyLayer: the bytes resp.Body has yet to deliver
  b,             \* copyLayer: b
  partSize,      \* copyLayer: partSize
  partFirstByte, \* copyLayer: partFirstByte
  sha,           \* copyLayer: sha
  lastPart,      \* copyLayer: lastPart
  parts,         \* UploadLayerPart calls of the current transfer
  uploadDigest,  \* copyLayer: uploadDigest (UploadId, hex)
  reads,         \* what the reads of the current transfer were like
  zeroReads      \* zero-byte reads without EOF of the current transfer

args == <<imageDigestOrTag, newTag, srcImage, srcBlobs>>
registry == <<destLayers, destImages, nextUploadId, destUploads>>
mainVars == <<manifest, img, layers, err, avails, neededLayers, idx>>
layerVars == <<upload, body, b, partSize, partFirstByte, sha, lastPart, parts,
               uploadDigest, reads, zeroReads>>
vars == <<args, registry, prevImages, run, pc, calls, mainVars, layerVars>>

NoManifest == [json |-> "none", Layers |-> <<>>, Config |-> imageLayer("")]
NoUpload == [UploadId |-> 0, PartSize |-> 0]
NoDigest == [UploadId |-> 0, hex |-> ShaNew]
NoReads == [max |-> 0, dataEOF |-> FALSE, failed |-> FALSE]

\* The locals of main and copyLayer before they are assigned.
Fresh ==
  /\ pc = "getManifest"
  /\ calls = <<>>
  /\ manifest = NoManifest
  /\ img = 0
  /\ layers = <<>>
  /\ err = ""
  /\ avails = {}
  /\ neededLayers = <<>>
  /\ idx = 1
  /\ upload = NoUpload
  /\ body = <<>>
  /\ b = <<>>
  /\ partSize = 0
  /\ partFirstByte = 0
  /\ sha = ShaNew
  /\ lastPart = FALSE
  /\ parts = <<>>
  /\ uploadDigest = NoDigest
  /\ reads = NoReads
  /\ zeroReads = 0

Init ==
  /\ imageDigestOrTag \in RunRefs
  /\ newTag \in {"", "v1"}
  /\ srcImage \in ManifestDocs(CanonDigests)
  /\ srcBlobs = FixedBlobs
  /\ destLayers \in SUBSET {HexOf(d, FixedBlobs) : d \in CanonDigests}
  /\ destImages = {}
  /\ prevImages = {}
  /\ nextUploadId = 1
  /\ destUploads = <<>>
  /\ run = 1
  /\ Fresh

\* One registry call: the operation, the layer digest (or identifier field) it
\* names, the position in the transfer plan it belongs to, and whether it
\* returned without error.
Call(op, d, i, ok) == [op |-> op, layer |-> d, i |-> i, ok |-> ok]

\* Faulty variant: the error is recorded and the run goes on to publish.
Fatal_goesOn(e) == pc' = "putManifest" /\ err' = e

\* log.Fatal(err)
Fatal(e) == pc' = "failed" /\ err' = e

\* ------------------------------------------------------------- getManifest
\* BatchGetImage returns an error, or n images; the one image is srcImage.
\* Faulty variant: only an empty answer is refused.
WrongImageCount_onlyZero(n) == n = 0

\* line 81: len(img.Images) != 1
WrongImageCount(n) == n # 1

\* Faulty variant: the config blob is put first.
allLayers_configFirst(m) == <<m.Config>> \o m.Layers

\* line 92: append(m.Layers, m.Config)
allLayers(m) == Append(m.Layers, m.Config)

getManifest ==
  /\ pc = "getManifest"
  /\ \E ok \in BOOLEAN, n \in 0..2 :
       /\ calls' = Append(calls, Call("BatchGetImage", ImageIdField(imageDigestOrTag), 0, ok))
       /\ img' = IF ok THEN n ELSE 0
       /\ IF ~ok
            THEN Fatal("BatchGetImage") /\ UNCHANGED <<manifest, layers>>
            ELSE IF WrongImageCount(n)
            THEN /\ Fatal(IF n = 0 THEN "BatchGetImage: Got 0 Images"
                                    ELSE "BatchGetImage: Got 2 Images")
                 /\ UNCHANGED <<manifest, layers>>
            ELSE IF ~UnmarshalOk(srcImage)
            THEN Fatal("Unmarshal ImageManifest") /\ UNCHANGED <<manifest, layers>>
            ELSE /\ manifest' = srcImage
                 /\ layers' = allLayers(Unmarshal(srcImage))
                 /\ pc' = "checkLayerAvails"
                 /\ err' = ""
  /\ UNCHANGED <<args, registry, prevImages, run, avails, neededLayers, idx, layerVars>>

\* --------------------------------------------------------- checkLayerAvails
\* The destination holds the layer a digest names.
Held(d) == HexOf(d, srcBlobs) \in destLayers

\* The answers BatchCheckLayerAvailability may give for the digests asked: a
\* held layer is AVAILABLE, under the digest as asked or as the registry
\* writes it; a layer not held is reported UNAVAILABLE or left out.
AvailEntries(d) ==
  IF Held(d)
  THEN {{[LayerDigest |-> k, LayerAvailability |-> "AVAILABLE"]} : k \in {d, Lower(d)}}
  ELSE {{[LayerDigest |-> d, LayerAvailability |-> "UNAVAILABLE"]}, {}}

AvailResponses(asked) ==
  {UNION {r[d] : d \in asked} :
     r \in {f \in [asked -> UNION {AvailEntries(d) : d \in asked}] :
              \A d \in asked : f[d] \in AvailEntries(d)}}

\* Faulty variant: every digest the answer lists counts as present, whatever its status.
destHasLayer_anyStatus(resp) ==
  [d \in Digests |-> \E la \in resp : la.LayerDigest = d]

\* lines 112-117
destHasLayer(resp) ==
  [d \in Digests |->
     \E la \in resp : la.LayerAvailability = "AVAILABLE" /\ la.LayerDigest = d]

\* Faulty variant: no layer is skipped.
unavailLayers_all(has, ls) == ls

\* lines 119-125
RECURSIVE unavailLayers(_, _)
unavailLayers(has, ls) ==
  IF ls = <<>> THEN <<>>
  ELSE IF has[Head(ls).Digest] THEN unavailLayers(has, Tail(ls))
       ELSE <<Head(ls)>> \o unavailLayers(has, Tail(ls))


checkLayerAvails ==
  /\ pc = "checkLayerAvails"
  /\ \E ok \in BOOLEAN :
       /\ calls' = Append(calls, Call("BatchCheckLayerAvailability", "", 0, ok))
       /\ IF ~ok
            THEN Fatal("BatchCheckLayerAvailability") /\ UNCHANGED <<avails, neededLayers>>
            ELSE \E resp \in AvailResponses({l.Digest : l \in Range(layers)}) :
                   /\ avails' = resp
                   /\ neededLayers' = unavailLayers(destHasLayer(resp), layers)
                   /\ pc' = "copyLayers"
                   /\ err' = ""
  /\ UNCHANGED <<args, registry, prevImages, run, manifest, img, layers, idx, layerVars>>

\* ---------------------------------------------------------------- copyLayers
\* Faulty variant: the loop stops one layer short.
copyLayers_stopsShort ==
  /\ pc = "copyLayers"
  /\ pc' = IF idx < Len(neededLayers) THEN "GetDownloadUrlForLayer" ELSE "putManifest"
  /\ UNCHANGED <<args, registry, prevImages, run, calls, mainVars, layerVars>>

\* for _, l := range layers: the next layer, or the return of nil after the last.
copyLayers ==
  /\ pc = "copyLayers"
  /\ pc' = IF idx <= Len(neededLayers) THEN "GetDownloadUrlForLayer" ELSE "putManifest"
  /\ UNCHANGED <<args, registry, prevImages, run, calls, mainVars, layerVars>>

\* ----------------------------------------------------------------- copyLayer
layerDigest == neededLayers[idx].Digest

GetDownloadUrlForLayer ==
  /\ pc = "GetDownloadUrlForLayer"
  /\ \E ok \in BOOLEAN :
       /\ calls' = Append(calls, Call("GetDownloadUrlForLayer", layerDigest, idx, ok))
       /\ IF ok THEN pc' = "InitiateLayerUpload" /\ err' = ""
                ELSE Fatal("copyLayer: GetDownloadUrlForLayer")
  /\ UNCHANGED <<args, registry, prevImages, run, manifest, img, layers, avails, neededLayers, idx, layerVars>>

\* The destination opens a session with a fresh id and dictates the part size.
InitiateLayerUpload ==
  /\ pc = "InitiateLayerUpload"
  /\ \E ok \in BOOLEAN, ps \in 1..MaxPart :
       /\ calls' = Append(calls, Call("InitiateLayerUpload", layerDigest, idx, ok))
       /\ IF ok
            THEN /\ upload' = [UploadId |-> nextUploadId, PartSize |-> ps]
                 /\ nextUploadId' = nextUploadId + 1
                 /\ destUploads' = Append(destUploads, [UploadId |-> nextUploadId,
                                                        run |-> run, i |-> idx,
                                                        committed |-> FALSE])
                 /\ pc' = "http.Get"
                 /\ err' = ""
            ELSE /\ Fatal("copyLayer: InitiateLayerUpload")
                 /\ UNCHANGED <<upload, nextUploadId, destUploads>>
  /\ UNCHANGED <<args, destLayers, destImages, prevImages, run, manifest, img, layers, avails,
                 neededLayers, idx, body, b, partSize, partFirstByte, sha, lastPart, parts,
                 uploadDigest, reads, zeroReads>>

\* http.Get and lines 165-173: the stream of the layer's bytes, the buffer, the
\* offset, the hash, and the first pass of the outer loop (partSize := 0).
httpGet ==
  /\ pc = "http.Get"
  /\ \E ok \in BOOLEAN :
       /\ calls' = Append(calls, Call("http.Get", layerDigest, idx, ok))
       /\ IF ok
            THEN /\ body' = srcBlobs[Lower(layerDigest)]
                 /\ b' = [i \in 1..upload.PartSize |-> 0]
                 /\ partFirstByte' = 0
                 /\ sha' = ShaNew
                 /\ lastPart' = FALSE
                 /\ partSize' = 0
                 /\ parts' = <<>>
                 /\ reads' = NoReads
                 /\ zeroReads' = 0
                 /\ pc' = "Read"
                 /\ err' = ""
            ELSE /\ Fatal("copyLayer: http GET layer")
                 /\ UNCHANGED <<body, b, partFirstByte, sha, lastPart, partSize, parts,
                                reads, zeroReads>>
  /\ UNCHANGED <<args, registry, prevImages, run, manifest, img, layers, avails, neededLayers,
                 idx, upload, uploadDigest>>

\* Faulty variant: a full buffer does not end the part.
FullBuffer_never(ps, size) == FALSE

\* Faulty variant: any read that brought bytes ends the part.
FullBuffer_anyRead(ps, size) == ps > 0

\* line 199: partSize == int(*upload.PartSize)
FullBuffer(ps, size) == ps = size

\* Faulty variant: the empty part at the end of the stream is uploaded too.
NothingToUpload_never(ps) == FALSE

\* line 204: partSize == 0
NothingToUpload(ps) == ps = 0

\* line 217: b[:partSize], the bytes of the part sent to the destination
LayerPartBlob(buf, ps) == SubSeq(buf, 1, ps)

\* Faulty variant: the whole buffer is hashed.
ShaInput_wholeBuffer(buf, ps) == buf

\* line 227: b[:partSize], the bytes written to the hash
ShaInput(buf, ps) == SubSeq(buf, 1, ps)

\* Faulty variant: the last byte of the part is taken one too far.
partLastByte_onePast(first, ps) == first + ps

\* line 212: partFirstByte + int64(partSize) - 1
partLastByte(first, ps) == first + ps - 1

\* Faulty variant: a read error is not looked at.
ReadFailed_ignored(e) == FALSE

\* line 181: err != nil && !errors.Is(err, io.EOF)
ReadFailed(e) == e = "error"

\* Faulty variant: a zero-byte read ends the part whether or not the stream ended.
ZeroReadBreaks_always(e) == TRUE

\* line 188: on a zero-byte read, errors.Is(err, io.EOF) leaves the inner loop
ZeroReadBreaks(e) == e = "EOF"

\* Faulty variant: the outer loop ends after the first part.
OuterLoopEnds_afterOnePart(last) == TRUE

\* line 172: for !lastPart
OuterLoopEnds(last) == last

\* resp.Body.Read(b[partSize:]) and lines 180-201.  The stream hands over n of
\* its remaining bytes, at most the room left in the buffer, with a nil error,
\* io.EOF (only once every byte is delivered) or another error.  Of the reads
\* into a buffer with room, at most MaxZeroReads return no byte and no error; a
\* read into a buffer without room returns no byte and no error, any number
\* of times, while the stream has bytes left.
Read ==
  /\ pc = "Read"
  /\ \E n \in 0..Min(upload.PartSize - partSize, Len(body)), e \in {"nil", "EOF", "error"} :
       /\ e = "EOF" => n = Len(body)
       /\ IF partSize < upload.PartSize
            THEN (e = "nil" /\ n = 0) => zeroReads < MaxZeroReads
            ELSE body # <<>> => e = "nil"
       /\ b' = [i \in 1..Len(b) |->
                  IF partSize < i /\ i <= partSize + n THEN body[i - partSize] ELSE b[i]]
       /\ body' = SubSeq(body, n + 1, Len(body))
       /\ reads' = [max |-> IF n > reads.max THEN n ELSE reads.max,
                    dataEOF |-> reads.dataEOF \/ (n > 0 /\ e = "EOF"),
                    failed |-> reads.failed \/ e = "error"]
       /\ zeroReads' = IF e = "nil" /\ n = 0 /\ partSize < upload.PartSize
                          THEN zeroReads + 1 ELSE zeroReads
       /\ IF ReadFailed(e)
            THEN Fatal("copyLayer: Read") /\ UNCHANGED <<partSize, lastPart>>
            ELSE IF n = 0
            THEN /\ lastPart' = (e = "EOF")
                 /\ pc' = IF ZeroReadBreaks(e) THEN "UploadLayerPart" ELSE "Read"
                 /\ UNCHANGED <<partSize, err>>
            ELSE /\ partSize' = partSize + n
                 /\ pc' = IF FullBuffer(partSize + n, upload.PartSize)
                          THEN "UploadLayerPart" ELSE "Read"
                 /\ UNCHANGED <<lastPart, err>>
  /\ UNCHANGED <<args, registry, prevImages, run, calls, manifest, img, layers, avails,
                 neededLayers, idx, upload, partFirstByte, sha, parts, uploadDigest>>

\* Lines 204-230 and the loop test of line 172: nothing to upload at the end of
\* the stream leaves the loop; otherwise the part goes to the destination, then
\* to the hash, the offset advances, and the loop goes on or ends.
UploadLayerPart ==
  /\ pc = "UploadLayerPart"
  /\ IF NothingToUpload(partSize)
       THEN /\ pc' = IF lastPart THEN "CompleteLayerUpload" ELSE "panic"
            /\ UNCHANGED <<err, parts, sha, partFirstByte, partSize>>
       ELSE \E ok \in BOOLEAN :
              /\ parts' = Append(parts, [LayerPartBlob |-> LayerPartBlob(b, partSize),
                                         PartFirstByte |-> partFirstByte,
                                         PartLastByte |-> partLastByte(partFirstByte, partSize),
                                         UploadId |-> upload.UploadId,
                                         ok |-> ok])
              /\ IF ok
                   THEN /\ sha' = ShaWrite(sha, ShaInput(b, partSize))
                        /\ partFirstByte' = partFirstByte + partSize
                        /\ partSize' = IF OuterLoopEnds(lastPart) THEN partSize ELSE 0
                        /\ pc' = IF OuterLoopEnds(lastPart) THEN "CompleteLayerUpload"
                                                            ELSE "Read"
                        /\ err' = ""
                   ELSE /\ Fatal("copyLayer: UploadLayerPart")
                        /\ UNCHANGED <<sha, partFirstByte, partSize>>
  /\ UNCHANGED <<args, registry, prevImages, run, calls, manifest, img, layers, avails,
                 neededLayers, idx, upload, body, b, lastPart, uploadDigest, reads, zeroReads>>

\* The bytes the destination received in the session: the parts it accepted.
RECURSIVE Received(_)
Received(ps) ==
  IF ps = <<>> THEN <<>>
  ELSE (IF Head(ps).ok THEN Head(ps).LayerPartBlob ELSE <<>>) \o Received(Tail(ps))

\* line 232: fmt.Sprintf("%s:%064x", *upload.UploadId, sha.Sum(nil))
Sprintf(id, h) == [UploadId |-> id, hex |-> h]

\* The sessions after the commit of the session a token names.
Committed(uploads, token) ==
  [k \in 1..Len(uploads) |->
     IF uploads[k].UploadId = token.UploadId
       THEN [uploads[k] EXCEPT !.committed = TRUE]
       ELSE uploads[k]]

\* Lines 232-244.  The destination commits only a digest that matches the bytes
\* it received, and then holds the layer under that digest.  On return the
\* locals of copyLayer are gone.
CompleteLayerUpload ==
  /\ pc = "CompleteLayerUpload"
  /\ \E ok \in BOOLEAN :
       /\ ok => sha = ShaWrite(ShaNew, Received(parts))
       /\ calls' = Append(calls, Call("CompleteLayerUpload", layerDigest, idx, ok))
       /\ IF ok
            THEN /\ destLayers' = destLayers \cup {sha}
                 /\ destUploads' = Committed(destUploads, Sprintf(upload.UploadId, sha))
                 /\ idx' = idx + 1
                 /\ pc' = "copyLayers"
                 /\ err' = ""
                 /\ upload' = NoUpload
                 /\ body' = <<>>
                 /\ b' = <<>>
                 /\ partSize' = 0
                 /\ partFirstByte' = 0
                 /\ sha' = ShaNew
                 /\ lastPart' = FALSE
                 /\ parts' = <<>>
                 /\ uploadDigest' = NoDigest
                 /\ reads' = NoReads
                 /\ zeroReads' = 0
            ELSE /\ Fatal("copyLayer: CompleteLayerUpload")
                 /\ uploadDigest' = Sprintf(upload.UploadId, sha)
                 /\ UNCHANGED <<destLayers, destUploads, idx, upload, body, b, partSize, partFirstByte,
                                sha, lastPart, parts, reads, zeroReads>>
  /\ UNCHANGED <<args, destImages, nextUploadId, prevImages, run, manifest, img, layers,
                 avails, neededLayers>>

\* ---------------------------------------------------------------- putManifest
\* The destination's images after PutImage: the manifest under the tag, which
\* moves from whatever it named before; without a tag, the manifest alone.
PutImage(images, tag, m) ==
  {im \in images : tag = "" \/ im.tag # tag} \cup {[tag |-> tag, manifest |-> m]}

\* Faulty variant: the manifest is written back from the parsed struct.
PutImageInput_remarshal ==
  [ImageManifest |-> Marshal(Unmarshal(manifest)), ImageTag |-> newTag]

\* lines 249-256: the manifest as getManifest returned it, and the tag if given
PutImageInput == [ImageManifest |-> manifest, ImageTag |-> newTag]

putManifest ==
  /\ pc = "putManifest"
  /\ \E ok \in BOOLEAN :
       /\ calls' = Append(calls, Call("PutImage", "", 0, ok))
       /\ IF ok
            THEN /\ destImages' = PutImage(destImages, PutImageInput.ImageTag,
                                          PutImageInput.ImageManifest)
                 /\ pc' = "done"
                 /\ err' = ""
            ELSE /\ Fatal("PutImage")
                 /\ UNCHANGED destImages
  /\ UNCHANGED <<args, destLayers, nextUploadId, destUploads, prevImages, run, manifest, img, layers,
                 avails, neededLayers, idx, layerVars>>

\* ------------------------------------------------------------------- re-run
\* The program is started again with the same arguments after it succeeded.
main ==
  /\ pc = "done"
  /\ run < MaxRuns
  /\ run' = run + 1
  /\ prevImages' = destImages
  /\ pc' = "getManifest"
  /\ calls' = <<>>
  /\ manifest' = NoManifest
  /\ img' = 0
  /\ layers' = <<>>
  /\ err' = ""
  /\ avails' = {}
  /\ neededLayers' = <<>>
  /\ idx' = 1
  /\ upload' = NoUpload
  /\ body' = <<>>
  /\ b' = <<>>
  /\ partSize' = 0
  /\ partFirstByte' = 0
  /\ sha' = ShaNew
  /\ lastPart' = FALSE
  /\ parts' = <<>>
  /\ uploadDigest' = NoDigest
  /\ reads' = NoReads
  /\ zeroReads' = 0
  /\ UNCHANGED <<args, registry>>

\* ------------------------------------------------------------ specifications
copyLayer ==
  \/ GetDownloadUrlForLayer
  \/ InitiateLayerUpload
  \/ httpGet
  \/ Read
  \/ UploadLayerPart
  \/ CompleteLayerUpload

Next ==
  \/ getManifest
  \/ checkLayerAvails
  \/ copyLayers
  \/ copyLayer
  \/ putManifest
  \/ main

Spec == Init /\ [][Next]_vars

\* Whole runs on manifests over a blob of two bytes and an empty blob.  The
\* program is sequential and every call it makes returns: whenever it has a
\* next step, it takes one.
LiveDigests == {"sha256:aa", "sha256:cc"}

InitLive ==
  /\ imageDigestOrTag \in RunRefs
  /\ newTag \in {"", "v1"}
  /\ srcImage \in ManifestDocs(LiveDigests)
  /\ srcBlobs = FixedBlobs
  /\ destLayers \in SUBSET {HexOf(d, FixedBlobs) : d \in LiveDigests}
  /\ destImages = {}
  /\ prevImages = {}
  /\ nextUploadId = 1
  /\ destUploads = <<>>
  /\ run = 1
  /\ Fresh

SpecLive == InitLive /\ [][Next]_vars /\ WF_vars(Next)

\* A run on a manifest that writes a digest in upper-case or lower-case hex,
\* towards a destination that may hold the layer it names.
CaseDigests == {"sha256:aa", "sha256:AA"}

InitCase ==
  /\ imageDigestOrTag \in RunRefs
  /\ newTag \in {"", "v1"}
  /\ srcImage \in ManifestDocs(CaseDigests)
  /\ srcBlobs = FixedBlobs
  /\ destLayers \in SUBSET {HexOf(d, FixedBlobs) : d \in CaseDigests}
  /\ destImages = {}
  /\ prevImages = {}
  /\ nextUploadId = 1
  /\ destUploads = <<>>
  /\ run = 1
  /\ Fresh

SpecCase == InitCase /\ [][Next]_vars

\* The lookup alone, for every reference: main up to the return of getManifest.
InitRef ==
  /\ imageDigestOrTag \in AllRefs
  /\ newTag = ""
  /\ srcImage \in ManifestDocs({"sha256:aa"})
  /\ srcBlobs = FixedBlobs
  /\ destLayers = {}
  /\ destImages = {}
  /\ prevImages = {}
  /\ nextUploadId = 1
  /\ destUploads = <<>>
  /\ run = 1
  /\ Fresh

SpecRef == InitRef /\ [][getManifest]_vars

\* One transfer of one arbitrary blob: copyLayer is entered for the only layer
\* of the plan, whose bytes at the source are any blob of up to MaxLen bytes.
InitCopy ==
  /\ imageDigestOrTag = <<"v", "1">>
  /\ newTag = ""
  /\ srcImage = [json |-> "pretty", Layers |-> <<>>, Config |-> imageLayer("sha256:aa")]
  /\ srcBlobs \in {[FixedBlobs EXCEPT !["sha256:aa"] = blob] : blob \in SeqsUpTo(Bytes, MaxLen)}
  /\ destLayers = {}
  /\ destImages = {}
  /\ prevImages = {}
  /\ nextUploadId = 1
  /\ destUploads = <<>>
  /\ run = 1
  /\ pc = "GetDownloadUrlForLayer"
  /\ calls = <<>>
  /\ manifest = srcImage
  /\ img = 1
  /\ layers = <<imageLayer("sha256:aa")>>
  /\ err = ""
  /\ avails = {}
  /\ neededLayers = <<imageLayer("sha256:aa")>>
  /\ idx = 1
  /\ upload = NoUpload
  /\ body = <<>>
  /\ b = <<>>
  /\ partSize = 0
  /\ partFirstByte = 0
  /\ sha = ShaNew
  /\ lastPart = FALSE
  /\ parts = <<>>
  /\ uploadDigest = NoDigest
  /\ reads = NoReads
  /\ zeroReads = 0

SpecCopy == InitCopy /\ [][copyLayer]_vars

\* ===================================================================== claims
\* Position k of the call log holds a call of op.
IsCall(k, op) == calls[k].op = op

\* The blob the transfer under way copies, and the part size of its session.
blob == srcBlobs[Lower(layerDigest)]
CopyErrors ==
  {"copyLayer: GetDownloadUrlForLayer", "copyLayer: InitiateLayerUpload",
   "copyLayer: http GET layer", "copyLayer: Read", "copyLayer: UploadLayerPart",
   "copyLayer: CompleteLayerUpload"}

\* What the destination was sent: content and byte range of each part.
Sent(ps) ==
  [i \in 1..Len(ps) |-> [LayerPartBlob |-> ps[i].LayerPartBlob,
                          PartFirstByte |-> ps[i].PartFirstByte,
                          PartLastByte |-> ps[i].PartLastByte]]

\* The parts of a blob cut at every size bytes, from offset first on.
RECURSIVE Chunks(_, _, _)
Chunks(bytes, size, first) ==
  IF bytes = <<>> THEN <<>>
  ELSE LET n == Min(size, Len(bytes))
       IN  <<[LayerPartBlob |-> SubSeq(bytes, 1, n),
              PartFirstByte |-> first,
              PartLastByte |-> first + n - 1]>>
           \o Chunks(SubSeq(bytes, n + 1, Len(bytes)), size, first + n)

RECURSIVE SumLen(_)
SumLen(ps) == IF ps = <<>> THEN 0 ELSE Len(Head(ps).LayerPartBlob) + SumLen(Tail(ps))

\* C1: whenever PutImage is about to be called or has been called in a run,
\* CompleteLayerUpload has succeeded before it for every blob of the transfer
\* plan, and the destination holds each of them.
C1_ManifestAfterAllCommits ==
  /\ \A k \in 1..Len(calls) :
       IsCall(k, "PutImage") =>
         \A i \in 1..Len(neededLayers) :
           \E j \in 1..(k - 1) :
             calls[j] = Call("CompleteLayerUpload", neededLayers[i].Digest, i, TRUE)
  /\ pc \in {"putManifest", "done"} =>
       \A i \in 1..Len(neededLayers) :
         /\ HexOf(neededLayers[i].Digest, srcBlobs) \in destLayers
         /\ \E j \in 1..Len(calls) :
              calls[j] = Call("CompleteLayerUpload", neededLayers[i].Digest, i, TRUE)

\* C1 witness: the manifest is published after a plan of two or more blobs.
C1_Witness ==
  /\ pc = "done"
  /\ Len(neededLayers) >= 2
  /\ \E k \in 1..Len(calls) : calls[k] = Call("PutImage", "", 0, TRUE)

\* The transfer of the blob at position idx of the plan has failed.
C2_FailedTransfer == err \in CopyErrors

\* C2: once the transfer of blob N has failed, at whichever step, the run has
\* ended: PutImage is not in the call log, no call belongs to a blob after N,
\* and no later step adds a call, a part or a published image.
C2_FailFast ==
  /\ [](C2_FailedTransfer =>
          /\ pc = "failed"
          /\ idx <= Len(neededLayers)
          /\ \A k \in 1..Len(calls) : ~IsCall(k, "PutImage") /\ calls[k].i <= idx
          /\ destImages = prevImages)
  /\ [][C2_FailedTransfer => UNCHANGED <<pc, calls, parts, destImages, destLayers>>]_vars

\* C2 witness: blob 2 of 3 fails in a part upload.
C2_Witness ==
  /\ pc = "failed"
  /\ err = "copyLayer: UploadLayerPart"
  /\ idx = 2
  /\ Len(neededLayers) = 3

\* C3: when the stream is exhausted and the digest is about to be committed,
\* the parts fed to the hash, concatenated in order, are the whole blob, and
\* the accumulated hash is the hash of the blob taken in one pass.
C3_DigestDeterminism ==
  pc = "CompleteLayerUpload" =>
    /\ Received(parts) = blob
    /\ sha = ShaWrite(ShaNew, blob)

\* C3 witness: a part size that does not divide the blob length, short reads.
C3_Witness ==
  /\ pc = "CompleteLayerUpload"
  /\ Len(blob) = 3
  /\ upload.PartSize = 2
  /\ reads.max < 2

\* C4: whatever the reads were like, the parts sent (content and byte range
\* of each) are the blob cut at every PartSize bytes, and the digest is that
\* of the blob: what a stream delivering as much as fits per read yields.
C4_ShortReadRobust ==
  pc = "CompleteLayerUpload" =>
    /\ Sent(parts) = Chunks(blob, upload.PartSize, 0)
    /\ \A i \in 1..Len(parts) : parts[i].ok
    /\ sha = ShaWrite(ShaNew, Received(parts))

\* C4 witness: the stream delivered one byte per read, the last one together
\* with EOF, and made a zero-byte read without EOF, into parts of 2 bytes or more.
C4_Witness ==
  /\ pc = "CompleteLayerUpload"
  /\ reads.max = 1
  /\ reads.dataEOF
  /\ zeroReads > 0
  /\ Len(blob) >= 3
  /\ upload.PartSize >= 2

\* C5: at the end of the stream ceil(L/P) parts were uploaded, none of them
\* empty, their lengths summing to L; and CompleteLayerUpload is called at
\* most once per transfer.
C5_NoEmptyPart ==
  /\ pc = "CompleteLayerUpload" =>
       /\ Len(parts) = (Len(blob) + upload.PartSize - 1) \div upload.PartSize
       /\ SumLen(parts) = Len(blob)
       /\ \A i \in 1..Len(parts) : Len(parts[i].LayerPartBlob) >= 1
  /\ \A j, k \in 1..Len(calls) :
       (IsCall(j, "CompleteLayerUpload") /\ IsCall(k, "CompleteLayerUpload")
          /\ calls[j].i = calls[k].i) => j = k

\* C5 witness: the part size divides the blob length, L/P = 2 parts.
C5_Witness ==
  /\ pc = "CompleteLayerUpload"
  /\ Len(blob) = 4
  /\ upload.PartSize = 2
  /\ Len(parts) = 2

\* C5 witness for the empty blob: committed with no part uploaded.
C5_WitnessEmpty ==
  /\ pc = "CompleteLayerUpload"
  /\ blob = <<>>
  /\ parts = <<>>

\* The availability answer has come, and what it says of a digest.
Checked ==
  \E k \in 1..Len(calls) : calls[k] = Call("BatchCheckLayerAvailability", "", 0, TRUE)
Available(d) == [LayerDigest |-> d, LayerAvailability |-> "AVAILABLE"] \in avails
Unavailable(d) == [LayerDigest |-> d, LayerAvailability |-> "UNAVAILABLE"] \in avails
Omitted(d) == \A la \in avails : la.LayerDigest # d
InPlan(l) == \E i \in 1..Len(neededLayers) : neededLayers[i] = l

\* C6: once the availability answer has come, a candidate blob is left out
\* of the transfer plan exactly if the answer lists its digest as AVAILABLE,
\* and no call of the transfer pipeline names an AVAILABLE digest.
C6_SkipCorrect ==
  Checked =>
    /\ \A k \in 1..Len(layers) : ~InPlan(layers[k]) <=> Available(layers[k].Digest)
    /\ \A k \in 1..Len(calls) : calls[k].i >= 1 => ~Available(calls[k].layer)

\* C6 witness: of three candidates one is AVAILABLE, one UNAVAILABLE and one
\* left out of the answer, and the run has finished.
C6_Witness ==
  /\ pc = "done"
  /\ Checked
  /\ \E x, y, z \in Range(layers) :
       Available(x.Digest) /\ Unavailable(y.Digest) /\ Omitted(z.Digest)

\* C7: in a run that follows a successful run with the same arguments, the
\* transfer plan is empty, no call of the transfer pipeline is made (no upload
\* session, no part, no commit), and when it ends the destination's published
\* images are those the previous run left, with the manifest under the tag.
C7_IdempotentRerun ==
  run >= 2 =>
    /\ \A k \in 1..Len(calls) :
         calls[k].op \in {"BatchGetImage", "BatchCheckLayerAvailability", "PutImage"}
    /\ parts = <<>>
    /\ upload = NoUpload
    /\ Checked => neededLayers = <<>>
    /\ pc = "done" =>
         /\ destImages = prevImages
         /\ [tag |-> newTag, manifest |-> srcImage] \in destImages

\* C7 witness: the second run has published, after a first run that opened
\* two upload sessions or more and published under a tag.
C7_Witness ==
  /\ run = 2
  /\ pc = "done"
  /\ nextUploadId >= 3
  /\ newTag = "v1"

\* C8: from getManifest's return on, the manifest main holds is the document
\* the source returned, and every image a finished run has published carries
\* exactly that document, under the tag given.
C8_ManifestVerbatim ==
  /\ manifest \in {NoManifest, srcImage}
  /\ pc \in {"checkLayerAvails", "copyLayers", "putManifest", "done"} => manifest = srcImage
  /\ pc = "done" =>
       /\ [tag |-> newTag, manifest |-> srcImage] \in destImages
       /\ \A im \in destImages : im.manifest = srcImage

\* C8 witness: the manifest is published under a tag after a blob transfer.
C8_Witness ==
  /\ pc = "done"
  /\ run = 1
  /\ newTag = "v1"
  /\ Len(neededLayers) >= 1

C9_NotAvailable(l) == ~Available(l.Digest)
C9_IsTransferStart(c) == c.op = "GetDownloadUrlForLayer"

\* C9: the candidates are the manifest's layers in order and then the config
\* blob; the plan is the candidates without the AVAILABLE ones, in the same
\* order; and the k-th transfer started is that of the k-th blob of the plan,
\* every call of the pipeline naming the blob at its position of the plan and
\* no call going back to an earlier position.
C9_PlanOrder ==
  /\ manifest = srcImage =>
       /\ Len(layers) = Len(srcImage.Layers) + 1
       /\ \A k \in 1..Len(srcImage.Layers) : layers[k] = srcImage.Layers[k]
       /\ layers[Len(layers)] = srcImage.Config
  /\ Checked => neededLayers = SelectSeq(layers, C9_NotAvailable)
  /\ LET started == SelectSeq(calls, C9_IsTransferStart)
     IN  /\ Len(started) <= Len(neededLayers)
         /\ \A k \in 1..Len(started) :
              started[k].i = k /\ started[k].layer = neededLayers[k].Digest
  /\ \A k \in 1..Len(calls) :
       calls[k].i >= 1 =>
         /\ calls[k].layer = neededLayers[calls[k].i].Digest
         /\ k > 1 => calls[k - 1].i <= calls[k].i

\* C9 witness: layers [aa, bb], config cc, the destination has aa: the plan
\* is [bb, cc] and both were transferred.
C9_Witness ==
  /\ pc = "done"
  /\ layers = <<imageLayer("sha256:aa"), imageLayer("sha256:bb"), imageLayer("sha256:cc")>>
  /\ Available("sha256:aa")
  /\ neededLayers = <<imageLayer("sha256:bb"), imageLayer("sha256:cc")>>

\* BatchGetImage has answered and the image was not resolved.
C10_ResolutionFailed ==
  /\ Len(calls) >= 1
  /\ ~calls[1].ok \/ img # 1 \/ ~UnmarshalOk(srcImage)

\* C10: if BatchGetImage fails or returns no image or more than one, or the
\* manifest does not parse, the run has failed with BatchGetImage as its only
\* call: no availability check, no transfer, no part, nothing published.
C10_ResolutionAborts ==
  C10_ResolutionFailed =>
    /\ pc = "failed"
    /\ err \in {"BatchGetImage", "BatchGetImage: Got 0 Images",
                 "BatchGetImage: Got 2 Images", "Unmarshal ImageManifest"}
    /\ Len(calls) = 1
    /\ IsCall(1, "BatchGetImage")
    /\ neededLayers = <<>>
    /\ parts = <<>>
    /\ upload = NoUpload
    /\ destImages = prevImages

\* C10 witness: the source returned two images.
C10_Witness ==
  /\ pc = "failed"
  /\ img = 2
  /\ err = "BatchGetImage: Got 2 Images"

\* C10 witness: the manifest does not parse.
C10_WitnessUnparsable ==
  /\ pc = "failed"
  /\ img = 1
  /\ err = "Unmarshal ImageManifest"

\* C11: within one blob transfer the byte ranges of the parts sent are
\* contiguous, in order and non-overlapping: the first part starts at byte 0,
\* every part holds one byte or more and ends at its first byte plus its length
\* minus one, and every later part starts one past the end of the part before
\* it, which is the sum of the lengths of the parts before it.
C11_ContiguousRanges ==
  \A k \in 1..Len(parts) :
    /\ Len(parts[k].LayerPartBlob) >= 1
    /\ parts[k].PartLastByte = parts[k].PartFirstByte + Len(parts[k].LayerPartBlob) - 1
    /\ parts[k].PartFirstByte = IF k = 1 THEN 0 ELSE parts[k - 1].PartLastByte + 1
    /\ parts[k].PartFirstByte = SumLen(SubSeq(parts, 1, k - 1))

\* C11 witness: three parts or more were sent, filled by reads among which
\* one returned no byte.
C11_Witness ==
  /\ Len(parts) >= 3
  /\ parts[3].PartFirstByte = 2
  /\ zeroReads >= 1

\* C12: every part sent holds between 1 and PartSize bytes, and every part
\* that is followed by another holds exactly PartSize bytes, whatever the reads
\* were like; a part shorter than PartSize is sent only once the stream ended.
C12_PartSizes ==
  /\ \A k \in 1..Len(parts) :
       /\ Len(parts[k].LayerPartBlob) \in 1..upload.PartSize
       /\ k < Len(parts) => Len(parts[k].LayerPartBlob) = upload.PartSize
  /\ (parts # <<>> /\ Len(parts[Len(parts)].LayerPartBlob) < upload.PartSize) => lastPart

\* C12 witness: reads of one byte filled a part of two bytes, and a last part
\* of one byte followed it.
C12_Witness ==
  /\ Len(parts) = 2
  /\ reads.max = 1
  /\ Len(parts[1].LayerPartBlob) = 2
  /\ Len(parts[2].LayerPartBlob) = 1

\* The bytes of the blob that the stream has handed out and that are neither
\* in a part sent nor counted in the part being filled: those a failed read
\* returned together with its error.
C13_BytesWithError == Len(blob) - Len(body) - partFirstByte - partSize

\* C13: once a read has returned an error other than EOF, with or without
\* bytes, the transfer has failed with the read error; the parts sent are the
\* full parts sent before it, all accepted, so neither the bytes gathered for
\* the current part nor those returned with the error were sent; nothing was
\* committed; and no later step reads, sends a part or commits.
C13_ReadErrorAborts ==
  /\ [](reads.failed =>
          /\ pc = "failed"
          /\ err = "copyLayer: Read"
          /\ \A k \in 1..Len(parts) :
               parts[k].ok /\ Len(parts[k].LayerPartBlob) = upload.PartSize
          /\ SumLen(parts) = partFirstByte
          /\ C13_BytesWithError >= 0
          /\ \A k \in 1..Len(calls) : ~IsCall(k, "CompleteLayerUpload")
          /\ uploadDigest = NoDigest)
  /\ [][reads.failed => UNCHANGED <<pc, calls, parts, body, reads, sha, destLayers>>]_vars

\* C13 witness: after a part was sent and a byte gathered for the next part, a
\* read returned a byte together with an error.
C13_Witness ==
  /\ reads.failed
  /\ Len(parts) >= 1
  /\ partSize >= 1
  /\ C13_BytesWithError >= 1

\* C13 witness: a read returned an error and no byte.
C13_WitnessNoBytes ==
  /\ reads.failed
  /\ C13_BytesWithError = 0

\* C15: the internal logic error is never reached: whenever the inner loop is
\* left, the stream has ended or the buffer holds a full part of PartSize >= 1
\* bytes, so an empty part is only seen at the end of the stream.
C15_PanicUnreachable ==
  /\ pc # "panic"
  /\ err # "internal logic error"
  /\ pc = "UploadLayerPart" =>
       /\ upload.PartSize >= 1
       /\ lastPart \/ partSize = upload.PartSize
       /\ partSize = 0 => lastPart

\* C15 witness: the inner loop was left with no byte gathered, after a part
\* was sent and a zero-byte read without EOF was retried.
C15_Witness ==
  /\ pc = "UploadLayerPart"
  /\ partSize = 0
  /\ lastPart
  /\ zeroReads >= 1
  /\ Len(parts) >= 1

\* The session the destination opened for the blob at position i of this run's
\* plan is at position k of its sessions.
C14_SessionOf(k, i) == destUploads[k].run = run /\ destUploads[k].i = i

\* C14: one upload session is opened per blob of the plan, each under an id of
\* its own; every part of a transfer, and the commit, carry the id of the
\* session opened for that blob; a session is committed at most once, and only
\* after the stream has ended and every part was accepted; and a part is sent
\* only to the open session of the running transfer, never after its commit or
\* after a failure.
C14_OneSessionPerBlob ==
  /\ [](/\ \A k \in 1..Len(destUploads) :
             /\ destUploads[k].UploadId = k
             /\ k < nextUploadId
             /\ k > 1 => ~C14_SessionOf(k - 1, destUploads[k].i)
             /\ destUploads[k].run = run =>
                  /\ destUploads[k].i <= idx
                  /\ destUploads[k].committed <=> destUploads[k].i < idx
        /\ \A i \in 1..(idx - 1) : \E k \in 1..Len(destUploads) : C14_SessionOf(k, i)
        /\ upload # NoUpload =>
             /\ upload.UploadId = Len(destUploads)
             /\ C14_SessionOf(upload.UploadId, idx)
        /\ \A k \in 1..Len(parts) :
             upload # NoUpload /\ parts[k].UploadId = upload.UploadId
        /\ \A k \in 1..Len(calls) :
             /\ IsCall(k, "InitiateLayerUpload") =>
                  calls[k - 1] = Call("GetDownloadUrlForLayer", calls[k].layer, calls[k].i, TRUE)
             /\ IsCall(k, "http.Get") =>
                  calls[k - 1] = Call("InitiateLayerUpload", calls[k].layer, calls[k].i, TRUE)
             /\ IsCall(k, "CompleteLayerUpload") =>
                  calls[k - 1] = Call("http.Get", calls[k].layer, calls[k].i, TRUE)
             /\ (IsCall(k, "GetDownloadUrlForLayer") /\ calls[k].i > 1) =>
                  calls[k - 1] = Call("CompleteLayerUpload",
                                      neededLayers[calls[k].i - 1].Digest, calls[k].i - 1, TRUE)
        /\ pc = "CompleteLayerUpload" =>
             /\ lastPart
             /\ \A k \in 1..Len(parts) : parts[k].ok
             /\ ~destUploads[upload.UploadId].committed
        /\ uploadDigest # NoDigest => uploadDigest.UploadId = upload.UploadId)
  /\ [][/\ parts' # parts =>
             \/ parts' = <<>>
             \/ /\ pc = "UploadLayerPart"
                /\ ~destUploads[upload.UploadId].committed
                /\ \A k \in 1..Len(parts) : parts[k].ok
                /\ parts'[Len(parts')].UploadId = upload.UploadId
        /\ destUploads' # destUploads =>
             \/ pc = "InitiateLayerUpload" /\ Len(destUploads') = Len(destUploads) + 1
             \/ /\ pc = "CompleteLayerUpload"
                /\ destUploads' = Committed(destUploads, Sprintf(upload.UploadId, sha))
                /\ destUploads'[upload.UploadId].committed]_vars

\* C14 witness: the second blob of the plan, sent in two parts or more to the
\* second session, is about to be committed.
C14_Witness ==
  /\ pc = "CompleteLayerUpload"
  /\ idx = 2
  /\ Len(parts) >= 2
  /\ upload.UploadId = 2
  /\ destUploads[1].committed

\* C14 witness: a run ended after three sessions, all committed.
C14_WitnessThree ==
  /\ pc = "done"
  /\ Len(destUploads) = 3
  /\ \A k \in 1..3 : destUploads[k].committed /\ destUploads[k].run = run

\* The destination reported as AVAILABLE a digest that is d in another letter
\* case, or d itself.
C16_AvailableAnyCase(d) ==
  \E la \in avails : la.LayerAvailability = "AVAILABLE" /\ Lower(la.LayerDigest) = Lower(d)

\* C16: digests are compared after case normalization: once the availability
\* answer is in, a blob of the manifest whose digest is, up to the case of its
\* hex letters, one the destination reported AVAILABLE is not in the transfer
\* plan.
C16_CaseNormalized ==
  Checked => \A k \in 1..Len(layers) : C16_AvailableAnyCase(layers[k].Digest) => ~InPlan(layers[k])

\* The hex digits of the reference pattern: 0-9 and a-f in lower case.
C17_HexDigits == {"0", "1", "2", "3", "4", "5", "6", "7", "8", "9",
                  "a", "b", "c", "d", "e", "f"}

\* The reference has a ":" and the text after its first ":" is not empty and
\* holds hex digits only.
C17_IsDigestRef(ref) ==
  \E i \in 1..Len(ref) :
    /\ ref[i] = ":"
    /\ \A j \in 1..(i - 1) : ref[j] # ":"
    /\ i < Len(ref)
    /\ \A j \in (i + 1)..Len(ref) : ref[j] \in C17_HexDigits

\* C17: the image reference is looked up as a digest exactly when it has a
\* ":" and the part after the first ":" is one or more hex digits (0-9, a-f in
\* lower case); every other reference (no colon, nothing after the colon, a
\* character after the colon that is no such digit) is looked up as a tag; the
\* lookup sets exactly one of ImageDigest and ImageTag, to the whole reference.
C17_RefClassification ==
  calls # <<>> =>
    /\ IsCall(1, "BatchGetImage")
    /\ calls[1].layer =
         IF C17_IsDigestRef(imageDigestOrTag) THEN "ImageDigest" ELSE "ImageTag"
    /\ ImageIds(imageDigestOrTag) =
         IF C17_IsDigestRef(imageDigestOrTag)
           THEN [ImageDigest |-> <<imageDigestOrTag>>, ImageTag |-> <<>>]
           ELSE [ImageDigest |-> <<>>, ImageTag |-> <<imageDigestOrTag>>]

\* C17 witness: a reference with hex digits after its colon was looked up as a
\* digest.
C17_Witness ==
  /\ calls # <<>>
  /\ imageDigestOrTag = <<"g", ":", "a">>
  /\ calls[1].layer = "ImageDigest"

\* C17 witness: a reference with nothing after its colon was looked up as a tag.
C17_WitnessEmptyHex ==
  /\ calls # <<>>
  /\ imageDigestOrTag = <<"a", ":">>
  /\ calls[1].layer = "ImageTag"

\* C17 witness: a reference with a second colon, or with a hex letter in upper
\* case, after its colon was looked up as a tag.
C17_WitnessNonHex ==
  /\ calls # <<>>
  /\ imageDigestOrTag \in {<<":", "a", ":">>, <<"a", ":", "A">>}
  /\ calls[1].layer = "ImageTag"

\* C18: within one run no digest is transferred more than once: the transfer
\* plan names each digest at most once, and no two upload sessions are opened,
\* and no two commits made, for the same digest.
C18_NoDuplicateTransfer ==
  /\ \A j, k \in 1..Len(neededLayers) :
       neededLayers[j].Digest = neededLayers[k].Digest => j = k
  /\ \A j, k \in 1..Len(calls) :
       (/\ calls[j].op = calls[k].op
        /\ calls[j].op \in {"InitiateLayerUpload", "CompleteLayerUpload"}
        /\ calls[j].layer = calls[k].layer) => j = k

\* A run has ended: the manifest is published or the failure is reported.
C19_RunEnded == pc \in {"done", "failed"}

\* A blob transfer has ended: committed, and back in the loop of copyLayers,
\* or failed.
C19_TransferEnded == pc \in {"copyLayers", "putManifest", "done", "failed"}

\* C19: for every part size the destination dictates, with a stream that after
\* finitely many reads returns EOF or an error and registry calls that return,
\* every run that starts ends with the manifest published or a failure, and
\* every blob transfer that starts ends with its commit or a failure; a
\* zero-byte read without EOF is retried: the next step is a read again, no
\* part is sent and nothing of the program's state has changed.
C19_Termination ==
  /\ (pc = "getManifest") ~> C19_RunEnded
  /\ (pc = "GetDownloadUrlForLayer") ~> C19_TransferEnded
  /\ [][zeroReads' = zeroReads + 1 =>
          /\ pc = "Read"
          /\ pc' = "Read"
          /\ UNCHANGED <<args, registry, prevImages, run, calls, mainVars, upload, body,
                         b, partSize, partFirstByte, sha, lastPart, parts, uploadDigest,
                         reads>>]_vars

\* C19 witness: the transfer of the last blob of the plan reached its commit
\* after a zero-byte read without EOF was retried and two parts were sent.
C19_Witness ==
  /\ pc = "CompleteLayerUpload"
  /\ zeroReads >= 1
  /\ Len(parts) >= 2
  /\ idx = Len(neededLayers)

====
